---- MODULE Spec2Model ----
(***************************************************************************)
(* A model of python-shapesapi: the Digital Object Repository client       *)
(* (shapesapi/dorepository.py) and the Shape/Category layer on top of it   *)
(* (shapesapi/shapes.py), at the granularity of one HTTP request per step. *)
(*                                                                         *)
(* A Python string is a sequence of atoms: an atom is a piece of text with *)
(* no inner structure the code looks at ("internal.", ".", "/", "txt").    *)
(* A Python dict is a function whose DOMAIN is the set of its keys.        *)
(* The remote repository is the environment: a table of records, each with *)
(* attributes and data elements, that answers one request at a time.       *)
(***************************************************************************)
EXTENDS Integers, Sequences, FiniteSets, TLC

\* ------------------------------------------------------------------ bounds
MaxObjects == 2

\* ----------------------------------------------------------------- strings
Empty == << >>

\* p in s, for Python strings
Contains(p, s) ==
    \E i \in 1..(Len(s) - Len(p) + 1) : SubSeq(s, i, i + Len(p) - 1) = p

\* the positions of atom sep in s
Positions(s, sep) == {i \in 1..Len(s) : s[i] = sep}

Last(set) == CHOOSE i \in set : \A j \in set : j <= i

\* s.split(sep)[-1]
SplitLast(s, sep) ==
    IF Positions(s, sep) = {} THEN s
    ELSE SubSeq(s, Last(Positions(s, sep)) + 1, Len(s))

\* os.path.basename
basename(path) == SplitLast(path, "/")

INTERNAL      == <<"internal.">>
K_created     == <<"internal.", "created">>
K_size        == <<"internal.", "size">>
K_name        == <<"name">>
K_type        == <<"type">>
K_category    == <<"category">>
K_language    == <<"language">>
K_subinternal == <<"sub", "internal.", "id">>
K_mimetype    == <<"mimetype">>
K_filename    == <<"filename">>
V_shape       == <<"shape">>
V_category    == <<"category">>
OCTET_STREAM  == <<"application/octet-stream">>

\* dict[k] = v
DictPut(d, k, v) == (k :> v) @@ d

\* dict.get(k, default)
DictGet(d, k, default) == IF k \in DOMAIN d THEN d[k] ELSE default

\* ------------------------------------------------------------ guess_type
\* mimetypes.guess_type(filename)[0], Empty for None: decided by the extension
StdlibGuess(filename) ==
    IF SplitLast(filename, ".") = <<"txt">> /\ Positions(filename, ".") # {}
    THEN <<"text/plain">> ELSE Empty

NONSTANDARD_MIME_TYPES ==
    (<<"svg">> :> <<"image/svg+xml">>) @@
    (<<"docx">> :> <<"application/vnd.openxmlformats-officedocument.wordprocessingml.document">>)

guess_type(filename) ==
    IF StdlibGuess(filename) # Empty THEN StdlibGuess(filename)
    ELSE DictGet(NONSTANDARD_MIME_TYPES, SplitLast(filename, "."), OCTET_STREAM)

\* ------------------------------------------------------ get_file_container
\* A file argument: a path (or an open file: it has a name and a content), or
\* an upload dict {'filename', 'content_type', 'body'}.
NoFile == [kind |-> "none", name |-> Empty, ctype |-> Empty, body |-> Empty]

\* a bug: the name of the file is kept with its directories
get_file_container_path(file) ==
    IF file.kind = "path"
    THEN [body |-> file.body, filename |-> file.name,
          mimetype |-> guess_type(file.name)]
    ELSE [body |-> file.body, filename |-> file.name, mimetype |-> file.ctype]

get_file_container(file) ==
    IF file.kind = "path"
    THEN [body |-> file.body, filename |-> basename(file.name),
          mimetype |-> guess_type(file.name)]
    ELSE [body |-> file.body, filename |-> file.name, mimetype |-> file.ctype]

\* -------------------------------------------------------------------- urls
NoQuery == [on |-> FALSE, typ |-> Empty, name |-> Empty, id |-> Empty]

\* settings.DO_URL
RepositoryUrl == [h |-> Empty, el |-> Empty, att |-> Empty, q |-> NoQuery]

\* '%s%s/' % (url, escape_for_url(handle))
ObjectUrl(handle) == [RepositoryUrl EXCEPT !.h = handle]

\* '%(url)satt/%(name)s/'
AttUrl(url, name) == [url EXCEPT !.att = name]

\* '%sel/%s/' % (self.url, name)
ElUrl(url, name) == [url EXCEPT !.el = name]

\* '%sel/%s/att/mimetype' % (self.url, name)
ElAttUrl(url, name, att) == [url EXCEPT !.el = name, !.att = att]

\* self.url + '?query=%s' % escape_for_url(query)
SearchUrl(query) == [RepositoryUrl EXCEPT !.q = query]

\* 'objatt_name:"..."'
NameQuery(name) == [on |-> TRUE, typ |-> Empty, name |-> name, id |-> Empty]

Request(method, url, body) == [method |-> method, url |-> url, body |-> body]

\* ------------------------------------------------------------------- state
VARIABLES
    repo,       \* the remote repository: handle -> [atts, els]
    nextId,     \* the number of the next handle the repository hands out
    response,   \* opener.response of each process (AuthorizedOpener, one per process)
    defaults,   \* the handles=[] default list of BaseList.__init__ of each process
    active,     \* the threads that run
    proc,       \* the process of each thread
    flaky,      \* whether requests may fail for reasons of the network or the server
    pc,         \* where each thread is in its operation
    op,         \* the operation each thread runs (or ran last)
    arg,        \* its arguments and the locals of the call in progress
    todo,       \* the dict items a loop of the operation has not visited yet
    cur,        \* the object an operation in progress is building
    obj,        \* the DigitalObject the thread's program holds
    ret,        \* how the thread's last operation ended
    sent,       \* the requests the operation has sent, with their outcomes
    snap,       \* what the repository listed when the thread's last create began
    written,    \* the value of the last successful set of each attribute
    lst         \* the DigitalObjectList the thread's program holds

vars == <<repo, nextId, response, defaults, active, proc, flaky, pc, op, arg,
          todo, cur, obj, ret, sent, snap, written, lst>>

Threads == {"t1", "t2"}
Procs   == {"p1", "p2"}

\* ------------------------------------------------- the remote repository
Handle(i) == <<"h", ToString(i)>>

\* a record as the repository creates it
NewRecord == [atts |-> (K_created :> <<"0">>), els |-> << >>]

NewElement(body) ==
    [body |-> body, atts |-> (K_size :> <<ToString(Len(body))>>)]

\* the HTTP status the repository r answers req with
ServerStatus(r, req) ==
    LET u == req.url IN
    IF u.h = Empty THEN "ok"
    ELSE IF u.h \notin DOMAIN r THEN "404"
    ELSE IF u.el # Empty /\ u.el \notin DOMAIN r[u.h].els
            /\ ~(req.method = "PUT" /\ u.att = Empty) THEN "404"
    ELSE "ok"

\* the repository r after it has served req (n: the next handle number)
ServerApply(r, n, req) ==
    LET u == req.url IN
    CASE req.method = "POST" -> (Handle(n) :> NewRecord) @@ r
      [] req.method = "DELETE" -> [h \in DOMAIN r \ {u.h} |-> r[h]]
      [] req.method = "PUT" /\ u.el = Empty ->
            [r EXCEPT ![u.h].atts = DictPut(@, u.att, req.body)]
      [] req.method = "PUT" /\ u.el # Empty /\ u.att = Empty ->
            [r EXCEPT ![u.h].els = DictPut(@, u.el,
                IF u.el \in DOMAIN @
                THEN [@[u.el] EXCEPT !.body = req.body,
                                     !.atts = DictPut(@, K_size, <<ToString(Len(req.body))>>)]
                ELSE NewElement(req.body))]
      [] req.method = "PUT" /\ u.el # Empty /\ u.att # Empty ->
            [r EXCEPT ![u.h].els[u.el].atts = DictPut(@, u.att, req.body)]
      [] OTHER -> r

\* whether record h of r matches a search
Matches(r, h, q) ==
    /\ q.typ # Empty => DictGet(r[h].atts, K_type, Empty) = q.typ
    /\ \/ q.id = Empty /\ q.name = Empty
       \/ q.id # Empty /\ h = q.id
       \/ q.name # Empty /\ DictGet(r[h].atts, K_name, Empty) = q.name

\* the <do> element of record h
DoElement(r, h) ==
    [id |-> h, atts |-> r[h].atts,
     els |-> [e \in DOMAIN r[h].els |-> r[h].els[e].atts]]

RECURSIVE ListFrom(_, _, _, _)
ListFrom(r, i, n, q) ==
    IF i >= n THEN << >>
    ELSE (IF Handle(i) \in DOMAIN r /\ Matches(r, Handle(i), q)
          THEN <<DoElement(r, Handle(i))>> ELSE << >>) \o ListFrom(r, i + 1, n, q)

NoResponse == [kind |-> "none", dos |-> << >>, raw |-> Empty]

\* a response whose body has been read: reading it again yields ''
Consumed == [kind |-> "consumed", dos |-> << >>, raw |-> Empty]

\* the body of the response to req, served by repository r (after the request)
ServerReply(r, n, req) ==
    LET u == req.url IN
    CASE req.method = "POST" ->
            [kind |-> "xml", dos |-> <<DoElement(r, Handle(n))>>, raw |-> Empty]
      [] req.method = "GET" /\ u.h = Empty ->
            [kind |-> "xml", dos |-> ListFrom(r, 1, n, u.q), raw |-> Empty]
      [] req.method = "GET" /\ u.h # Empty /\ u.el = Empty ->
            [kind |-> "xml", dos |-> <<DoElement(r, u.h)>>, raw |-> Empty]
      [] req.method = "GET" /\ u.h # Empty /\ u.el # Empty ->
            [kind |-> "raw", dos |-> << >>, raw |-> r[u.h].els[u.el].body]
      [] OTHER -> [kind |-> "empty", dos |-> << >>, raw |-> Empty]

\* ---------------------------------------------------------- parsing, objects
DigitalObjectFile(url, filename, mimetype, body, size) ==
    [url |-> url, filename |-> filename, mimetype |-> mimetype, size |-> size,
     hasbody |-> body # Empty, body |-> body]

\* DigitalObjectFile.filename
File_filename(f) == IF f.filename = Empty THEN <<"Untitled">> ELSE f.filename

\* DigitalObjectFile.mimetype
File_mimetype(f) ==
    IF f.mimetype = Empty THEN guess_type(File_filename(f)) ELSE f.mimetype

\* the file dicts parse_object and parse_objects build from the <el> elements
ParseFiles(do) ==
    [key \in {k \in DOMAIN do.els : ~Contains(INTERNAL, k)} |->
        [url  |-> ElUrl(ObjectUrl(do.id), key),
         size |-> DictGet(do.els[key], K_size, Empty),
         atts |-> [a \in {x \in DOMAIN do.els[key] : ~Contains(INTERNAL, x)} |->
                      do.els[key][a]]]]

\* a bug: the test of the attribute filter is inverted
parse_object_inverted(data) ==
    LET do == data.dos[1] IN
    [handle     |-> do.id,
     url        |-> ObjectUrl(do.id),
     attributes |-> [k \in {x \in DOMAIN do.atts : Contains(INTERNAL, x)} |-> do.atts[k]],
     files      |-> ParseFiles(do)]

\* parse_object: the first <do> of the document
parse_object(data) ==
    LET do == data.dos[1] IN
    [handle     |-> do.id,
     url        |-> ObjectUrl(do.id),
     attributes |-> [k \in {x \in DOMAIN do.atts : ~Contains(INTERNAL, x)} |-> do.atts[k]],
     files      |-> ParseFiles(do)]

\* parse_objects: every <do>; its test "'internal.' in a" asks whether the
\* element a has a child equal to that string, which none has, so no
\* attribute is left out
parse_objects(data) ==
    [i \in 1..Len(data.dos) |->
        LET do == data.dos[i] IN
        [handle     |-> do.id,
         url        |-> ObjectUrl(do.id),
         attributes |-> IF DOMAIN do.atts = {} THEN << >> ELSE do.atts,
         files      |-> IF DOMAIN do.atts = {} THEN << >> ELSE ParseFiles(do)]]

\* DigitalObject.__init__ on the file dicts of a parsed object (no body yet)
FilesOf(files) ==
    [k \in DOMAIN files |->
        DigitalObjectFile(files[k].url,
                          DictGet(files[k].atts, K_filename, Empty),
                          DictGet(files[k].atts, K_mimetype, Empty),
                          Empty,
                          files[k].size)]

DigitalObject(objdata) ==
    [handle |-> objdata.handle, url |-> objdata.url,
     attributes |-> objdata.attributes, files |-> FilesOf(objdata.files)]

NoObject == [handle |-> Empty, url |-> RepositoryUrl, attributes |-> << >>, files |-> << >>]

\* DigitalObjectList(objects, repository): object_handles is what it is given,
\* handles from all() and DigitalObjects from search(); objects is the dict
\* get_object fills
DigitalObjectList(kind, object_handles) ==
    [kind |-> kind, object_handles |-> object_handles, objects |-> << >>]

NoList == DigitalObjectList("none", << >>)

\* DigitalObject.get(name) without a default
DigitalObject_get(o, name) ==
    IF name \in DOMAIN o.attributes
    THEN [exc |-> "none", val |-> o.attributes[name]]
    ELSE [exc |-> "AttributeError", val |-> Empty]

\* --------------------------------------------------------- what a caller sees
\* len(rep.all()) were it called on repository r
AllLen(r, n) ==
    Len(parse_objects(ServerReply(r, n, Request("GET", RepositoryUrl, Empty))))

\* len(rep.search(query)) were it called on repository r
SearchLen(r, n, query) ==
    Len(parse_objects(ServerReply(r, n, Request("GET", SearchUrl(query), Empty))))

\* ------------------------------------------------------------ the opener
FaultOutcomes == {"400", "500", "conn"}

\* how a request may end: as the repository answers it, or, on a flaky
\* network, with an error status or no connection at all
Outcomes(req) ==
    {ServerStatus(repo, req)} \cup (IF flaky THEN FaultOutcomes ELSE {})

\* urllib2.urlopen raises HTTPError for an error status and URLError when
\* there is no connection; _make_request counts the error and raises it again
\* a bug: the request is sent again when it fails
MakeRequest_retrying(out) == IF out = "ok" THEN "return" ELSE "retry"

MakeRequest(out) == IF out = "ok" THEN "return" ELSE "raise"

RaisedBy(out) ==
    [exc |-> IF out = "conn" THEN "URLError" ELSE "HTTPError", code |-> out]

IsWrite(req) == req.method \in {"POST", "PUT", "DELETE"}

\* the snapshot of thread u after thread t's request req was served
SnapAfter(u, t, req) ==
    IF ~IsWrite(req) THEN snap[u]
    ELSE IF req.method = "POST" /\ u = t /\ snap[u].handle = Empty
         THEN [snap[u] EXCEPT !.handle = Handle(nextId)]
    ELSE IF req.method # "POST" /\ req.url.h = snap[u].handle THEN snap[u]
    ELSE [snap[u] EXCEPT !.clean = FALSE]

\* AuthorizedOpener._make_request / put_file: one request of thread t, ending out
Transmit(t, req, out) ==
    LET after == IF out = "ok" THEN ServerApply(repo, nextId, req) ELSE repo IN
    /\ repo' = after
    /\ nextId' = IF out = "ok" /\ req.method = "POST" THEN nextId + 1 ELSE nextId
    /\ response' = IF out = "ok"
                   THEN [response EXCEPT ![proc[t]] = ServerReply(after, nextId, req)]
                   ELSE response
    /\ sent' = [sent EXCEPT ![t] = Append(@, [req |-> req, out |-> out])]
    /\ snap' = IF out = "ok" THEN [u \in Threads |-> SnapAfter(u, t, req)] ELSE snap

\* ------------------------------------------------------------- call, return
NoArg == [handle |-> Empty, name |-> Empty, value |-> Empty, file |-> NoFile,
          files |-> << >>, data |-> << >>, query |-> NoQuery,
          sname |-> Empty, categories |-> << >>, cats |-> << >>, cat |-> Empty,
          stage |-> "none", i |-> 0, found |-> << >>, keep |-> FALSE]

NoRet == [status |-> "none", exc |-> "none", code |-> "none", out |-> "none",
          len |-> 0, val |-> Empty]

NoSnap == [all |-> 0, name |-> Empty, match |-> 0, handle |-> Empty, clean |-> FALSE]

Idle(t) == t \in active /\ pc[t] = "idle"

\* thread t calls operation o with arguments a
Call(t, o, a, first) ==
    /\ Idle(t)
    /\ op' = [op EXCEPT ![t] = o]
    /\ arg' = [arg EXCEPT ![t] = a]
    /\ pc' = [pc EXCEPT ![t] = first]
    /\ ret' = [ret EXCEPT ![t] = NoRet]
    /\ sent' = [sent EXCEPT ![t] = << >>]

\* the operation of thread t raises e after its request ended out
Raise(t, e, out) ==
    /\ pc' = [pc EXCEPT ![t] = "idle"]
    /\ ret' = [ret EXCEPT ![t] = [NoRet EXCEPT !.status = "raised", !.exc = e.exc,
                                               !.code = e.code, !.out = out]]

\* the operation of thread t returns
Return(t, len, val) ==
    /\ pc' = [pc EXCEPT ![t] = "idle"]
    /\ ret' = [ret EXCEPT ![t] = [NoRet EXCEPT !.status = "ok", !.out = "ok",
                                               !.len = len, !.val = val]]

\* the processes, their threads and the network
net == <<active, proc, flaky>>

\* what only the operations on lists change
env == <<active, proc, flaky, lst>>

envd == <<active, proc, flaky, defaults, lst>>

\* AuthorizedOpener.read by thread t: the body of the process's last response
Read(t) == response' = [response EXCEPT ![proc[t]] = Consumed]

ParseError == [exc |-> "ParseError", code |-> "none"]

\* the operation of thread t raises and drops what it was building
Abort(t, e, out) ==
    /\ Raise(t, e, out)
    /\ cur' = [cur EXCEPT ![t] = NoObject]
    /\ todo' = [todo EXCEPT ![t] = [files |-> {}, data |-> {}]]

\* ---------------------------------------------- DigitalObjectRepository.create
CreateRequest == Request("POST", RepositoryUrl, Empty)

\* a bug: create leaves out the loop over files.items()
CreateNext_no_files(t, o) ==
    IF todo[t].data # {}
    THEN \E k \in todo[t].data :
            /\ pc' = [pc EXCEPT ![t] = "set_put"]
            /\ arg' = [arg EXCEPT ![t].name = k, ![t].value = arg[t].data[k]]
            /\ todo' = [todo EXCEPT ![t].data = @ \ {k}]
            /\ cur' = [cur EXCEPT ![t] = o]
            /\ UNCHANGED <<obj, ret>>
    ELSE /\ Return(t, 0, Empty)
         /\ obj' = [obj EXCEPT ![t] = o]
         /\ cur' = [cur EXCEPT ![t] = NoObject]
         /\ UNCHANGED <<arg, todo>>

\* the loops of create over files.items() and data.items(), in the order the
\* dict yields them (any order), and its return; o is the object so far
CreateNext(t, o) ==
    IF todo[t].files # {}
    THEN \E k \in todo[t].files :
            /\ pc' = [pc EXCEPT ![t] = "put_file_body"]
            /\ arg' = [arg EXCEPT ![t].name = k, ![t].file = arg[t].files[k]]
            /\ todo' = [todo EXCEPT ![t].files = @ \ {k}]
            /\ cur' = [cur EXCEPT ![t] = o]
            /\ UNCHANGED <<obj, ret>>
    ELSE IF todo[t].data # {}
    THEN \E k \in todo[t].data :
            /\ pc' = [pc EXCEPT ![t] = "set_put"]
            /\ arg' = [arg EXCEPT ![t].name = k, ![t].value = arg[t].data[k]]
            /\ todo' = [todo EXCEPT ![t].data = @ \ {k}]
            /\ cur' = [cur EXCEPT ![t] = o]
            /\ UNCHANGED <<obj, ret>>
    ELSE IF arg[t].stage = "category"
    THEN \* get_or_create: Category(digital_oject=digital_object, ...), a
         \* keyword __init__ does not have
         /\ Abort(t, [exc |-> "TypeError", code |-> "none"], "ok")
         /\ UNCHANGED <<arg, obj>>
    ELSE /\ Return(t, 0, Empty)
         /\ obj' = [obj EXCEPT ![t] = o]
         /\ cur' = [cur EXCEPT ![t] = NoObject]
         /\ UNCHANGED <<arg, todo>>

CreatingOps == {"create", "shape_create", "category_create"}

\* a method of the object returns: inside create the loops go on, otherwise
\* the caller has the object as the method left it
MethodReturns(t, o) ==
    IF op[t] \in CreatingOps
    THEN CreateNext(t, o)
    ELSE /\ Return(t, 0, Empty)
         /\ obj' = [obj EXCEPT ![t] = o]
         /\ cur' = [cur EXCEPT ![t] = NoObject]
         /\ UNCHANGED <<arg, todo>>

\* the operations in progress that may still ask for a new record
PendingPosts ==
    Cardinality({u \in Threads :
        /\ pc[u] # "idle" /\ op[u] \in CreatingOps
        /\ \A i \in 1..Len(sent[u]) : sent[u][i].req.method # "POST"})

Repository_create_call(t, files, data) ==
    /\ nextId + PendingPosts <= MaxObjects
    /\ Call(t, "create", [NoArg EXCEPT !.files = files, !.data = data], "create_post")
    /\ todo' = [todo EXCEPT ![t] = [files |-> DOMAIN files, data |-> DOMAIN data]]
    /\ snap' = [snap EXCEPT ![t] =
                  [all    |-> AllLen(repo, nextId),
                   name   |-> DictGet(data, K_name, Empty),
                   match  |-> SearchLen(repo, nextId, NameQuery(DictGet(data, K_name, Empty))),
                   handle |-> Empty,
                   clean  |-> TRUE]]
    /\ UNCHANGED <<repo, nextId, response, cur, obj, written, envd>>

Repository_create_post(t) ==
    /\ pc[t] = "create_post"
    /\ \E out \in Outcomes(CreateRequest) :
        /\ Transmit(t, CreateRequest, out)
        /\ CASE MakeRequest(out) = "raise" ->
                  Abort(t, RaisedBy(out), out)
             [] MakeRequest(out) = "retry" ->
                  UNCHANGED <<pc, ret, cur, todo>>
             [] OTHER ->
                  /\ pc' = [pc EXCEPT ![t] = "create_read"]
                  /\ UNCHANGED <<ret, cur, todo>>
    /\ UNCHANGED <<op, arg, obj, written, envd>>

Repository_create_read(t) ==
    /\ pc[t] = "create_read"
    /\ Read(t)
    /\ IF response[proc[t]].kind = "xml" /\ response[proc[t]].dos # << >>
       THEN CreateNext(t, DigitalObject(parse_object(response[proc[t]])))
       ELSE Abort(t, ParseError, "ok") /\ UNCHANGED <<arg, obj>>
    /\ UNCHANGED <<repo, nextId, sent, snap, written, op, envd>>

\* ------------------------------------------------------- DigitalObject.set
\* a bug: the url is formatted with %(handle)s where %(name)s belongs
SetRequest_handle_for_name(self, name, value) ==
    Request("PUT", AttUrl(self.url, self.handle), value)

\* a bug: the name is sent as the body
SetRequest_name_for_value(self, name, value) ==
    Request("PUT", AttUrl(self.url, name), name)

SetRequest(self, name, value) == Request("PUT", AttUrl(self.url, name), value)

WrittenPut(h, name, value) ==
    DictPut(written, h, DictPut(DictGet(written, h, << >>), name, value))

WrittenDrop(h) == [x \in DOMAIN written \ {h} |-> written[x]]

DigitalObject_set_call(t, name, value) ==
    /\ obj[t].handle # Empty
    /\ Call(t, "set", [NoArg EXCEPT !.name = name, !.value = value], "set_put")
    /\ cur' = [cur EXCEPT ![t] = obj[t]]
    /\ UNCHANGED <<repo, nextId, response, todo, obj, snap, written, envd>>

DigitalObject_set(t) ==
    /\ pc[t] = "set_put"
    /\ LET self == cur[t]
           name == arg[t].name
           value == arg[t].value
           req == SetRequest(self, name, value)
       IN \E out \in Outcomes(req) :
            /\ Transmit(t, req, out)
            /\ CASE MakeRequest(out) = "raise" ->
                      /\ Abort(t, RaisedBy(out), out)
                      /\ UNCHANGED <<arg, obj, written>>
                 [] MakeRequest(out) = "retry" ->
                      UNCHANGED <<pc, ret, cur, todo, arg, obj, written>>
                 [] OTHER ->
                      /\ written' = WrittenPut(self.handle, name, value)
                      /\ MethodReturns(t, [self EXCEPT !.attributes = DictPut(@, name, value)])
    /\ UNCHANGED <<op, envd>>

\* ---------------------------------------------------- DigitalObject.delete
\* a bug: opener.get where opener.delete belongs
DeleteRequest_get(self) == Request("GET", self.url, Empty)

DeleteRequest(self) == Request("DELETE", self.url, Empty)

DigitalObject_delete_call(t) ==
    /\ obj[t].handle # Empty
    /\ Call(t, "delete", NoArg, "delete_req")
    /\ cur' = [cur EXCEPT ![t] = obj[t]]
    /\ UNCHANGED <<repo, nextId, response, todo, obj, snap, written, envd>>

DigitalObject_delete(t) ==
    /\ pc[t] = "delete_req"
    /\ LET self == cur[t]
           req == DeleteRequest(self)
       IN \E out \in Outcomes(req) :
            /\ Transmit(t, req, out)
            /\ CASE MakeRequest(out) = "raise" ->
                      /\ Abort(t, RaisedBy(out), out)
                      /\ UNCHANGED <<arg, obj, written>>
                 [] MakeRequest(out) = "retry" ->
                      UNCHANGED <<pc, ret, cur, todo, arg, obj, written>>
                 [] OTHER ->
                      /\ written' = WrittenDrop(self.handle)
                      /\ MethodReturns(t, self)
    /\ UNCHANGED <<op, envd>>

\* -------------------------------------------------- DigitalObject.put_file
PutFileBodyRequest(self, name, file) ==
    Request("PUT", ElUrl(self.url, name), file.body)

PutFileMimeRequest(self, name, file) ==
    Request("PUT", ElAttUrl(self.url, name, K_mimetype), file.mimetype)

PutFileNameRequest(self, name, file) ==
    Request("PUT", ElAttUrl(self.url, name, K_filename), file.filename)

DigitalObject_put_file_call(t, name, file) ==
    /\ obj[t].handle # Empty
    /\ Call(t, "put_file", [NoArg EXCEPT !.name = name, !.file = file], "put_file_body")
    /\ cur' = [cur EXCEPT ![t] = obj[t]]
    /\ UNCHANGED <<repo, nextId, response, todo, obj, snap, written, envd>>

\* opener.put_file: urlopen outside _make_request, its error raised as it is
DigitalObject_put_file_body(t) ==
    /\ pc[t] = "put_file_body"
    /\ LET req == PutFileBodyRequest(cur[t], arg[t].name, get_file_container(arg[t].file))
       IN \E out \in Outcomes(req) :
            /\ Transmit(t, req, out)
            /\ IF out # "ok"
               THEN Abort(t, RaisedBy(out), out)
               ELSE /\ pc' = [pc EXCEPT ![t] = "put_file_mimetype"]
                    /\ UNCHANGED <<ret, cur, todo>>
    /\ UNCHANGED <<op, arg, obj, written, envd>>

DigitalObject_put_file_mimetype(t) ==
    /\ pc[t] = "put_file_mimetype"
    /\ LET req == PutFileMimeRequest(cur[t], arg[t].name, get_file_container(arg[t].file))
       IN \E out \in Outcomes(req) :
            /\ Transmit(t, req, out)
            /\ CASE MakeRequest(out) = "raise" ->
                      Abort(t, RaisedBy(out), out)
                 [] MakeRequest(out) = "retry" ->
                      UNCHANGED <<pc, ret, cur, todo>>
                 [] OTHER ->
                      /\ pc' = [pc EXCEPT ![t] = "put_file_filename"]
                      /\ UNCHANGED <<ret, cur, todo>>
    /\ UNCHANGED <<op, arg, obj, written, envd>>

DigitalObject_put_file_filename(t) ==
    /\ pc[t] = "put_file_filename"
    /\ LET self == cur[t]
           name == arg[t].name
           file == get_file_container(arg[t].file)
           req == PutFileNameRequest(self, name, file)
       IN \E out \in Outcomes(req) :
            /\ Transmit(t, req, out)
            /\ CASE MakeRequest(out) = "raise" ->
                      /\ Abort(t, RaisedBy(out), out)
                      /\ UNCHANGED <<arg, obj>>
                 [] MakeRequest(out) = "retry" ->
                      UNCHANGED <<pc, ret, cur, todo, arg, obj>>
                 [] OTHER ->
                      MethodReturns(t, [self EXCEPT !.files = DictPut(@, name,
                          DigitalObjectFile(ElUrl(self.url, name), file.filename,
                                            file.mimetype, file.body, Empty))])
    /\ UNCHANGED <<op, written, envd>>

\* ------------------------------- DigitalObjectFile.body, DigitalObject.get_file
BodyRequest(file) == Request("GET", file.url, Empty)

\* a bug: body does not look for the body it has kept
body_kept_never(file) == FALSE

\* DigitalObjectFile.body: hasattr(self, '_body')
body_kept(file) == file.hasbody

\* the call of body on a file: stage tells whether the file had its _body
BodyArg(file, name) ==
    [NoArg EXCEPT !.name = name, !.stage = IF file.hasbody THEN "kept" ELSE "fetch"]

\* do.files[name].body, and do.get_file(name).read(), which is
\* StringIO(self.body).read(): the body kept from an earlier read, if any
File_body_call(t, name) ==
    /\ name \in DOMAIN obj[t].files
    /\ IF body_kept(obj[t].files[name])
       THEN /\ Idle(t)
            /\ op' = [op EXCEPT ![t] = "body"]
            /\ arg' = [arg EXCEPT ![t] = BodyArg(obj[t].files[name], name)]
            /\ sent' = [sent EXCEPT ![t] = << >>]
            /\ Return(t, 0, obj[t].files[name].body)
       ELSE Call(t, "body", BodyArg(obj[t].files[name], name), "body_req")
    /\ UNCHANGED <<repo, nextId, response, todo, cur, obj, snap, written, envd>>

File_body_req(t) ==
    /\ pc[t] = "body_req"
    /\ LET req == BodyRequest(obj[t].files[arg[t].name])
       IN \E out \in Outcomes(req) :
            /\ Transmit(t, req, out)
            /\ CASE MakeRequest(out) = "raise" ->
                      Raise(t, RaisedBy(out), out)
                 [] MakeRequest(out) = "retry" ->
                      UNCHANGED <<pc, ret>>
                 [] OTHER ->
                      /\ pc' = [pc EXCEPT ![t] = "body_read"]
                      /\ UNCHANGED ret
    /\ UNCHANGED <<op, arg, todo, cur, obj, written, envd>>

File_body_read(t) ==
    /\ pc[t] = "body_read"
    /\ Read(t)
    /\ LET body == response[proc[t]].raw IN
        /\ obj' = [obj EXCEPT ![t].files[arg[t].name].hasbody = TRUE,
                              ![t].files[arg[t].name].body = body]
        /\ Return(t, 0, body)
    /\ UNCHANGED <<repo, nextId, sent, snap, written, op, arg, todo, cur, envd>>

\* ------------------------------------------------ DigitalObjectRepository.get
GetRequest(handle) == Request("GET", ObjectUrl(handle), Empty)

\* a bug: the elif for 400 is missing
TranslateGetError_no400(out) ==
    CASE out = "404"  -> [exc |-> "DigitalObjectNotFound", code |-> "none"]
      [] out = "conn" -> [exc |-> "DORepositoryServerError", code |-> "none"]
      [] OTHER        -> [exc |-> "HTTPError", code |-> out]

\* the except clauses of get
TranslateGetError(out) ==
    CASE out = "404"  -> [exc |-> "DigitalObjectNotFound", code |-> "none"]
      [] out = "400"  -> [exc |-> "DORepositoryServerError", code |-> "none"]
      [] out = "conn" -> [exc |-> "DORepositoryServerError", code |-> "none"]
      [] OTHER        -> [exc |-> "HTTPError", code |-> out]

\* ShapeRepository.get, once the repository has returned digital_object
ShapeCheck(digital_object) ==
    LET typ == DigitalObject_get(digital_object, K_type) IN
    IF typ.exc # "none" THEN typ.exc
    ELSE IF typ.val = V_shape THEN "none"
    ELSE "ShapeInvalidRecord"

Issued == {Handle(i) : i \in 1..(nextId - 1)}

Repository_get_call(t, handle) ==
    /\ Call(t, "get", [NoArg EXCEPT !.handle = handle], "get_req")
    /\ UNCHANGED <<repo, nextId, response, todo, cur, obj, snap, written, envd>>

ShapeRepository_get_call(t, handle) ==
    /\ Call(t, "shape_get", [NoArg EXCEPT !.handle = handle], "get_req")
    /\ UNCHANGED <<repo, nextId, response, todo, cur, obj, snap, written, envd>>

Repository_get_req(t) ==
    /\ pc[t] = "get_req"
    /\ LET req == GetRequest(arg[t].handle)
       IN \E out \in Outcomes(req) :
            /\ Transmit(t, req, out)
            /\ CASE MakeRequest(out) = "raise" ->
                      Raise(t, TranslateGetError(out), out)
                 [] MakeRequest(out) = "retry" ->
                      UNCHANGED <<pc, ret>>
                 [] OTHER ->
                      /\ pc' = [pc EXCEPT ![t] = "get_read"]
                      /\ UNCHANGED ret
    /\ UNCHANGED <<op, arg, todo, cur, obj, written, envd>>

Repository_get_read(t) ==
    /\ pc[t] = "get_read"
    /\ Read(t)
    /\ IF response[proc[t]].kind = "xml" /\ response[proc[t]].dos # << >>
       THEN LET o == DigitalObject(parse_object(response[proc[t]]))
                e == IF op[t] = "shape_get" THEN ShapeCheck(o) ELSE "none"
            IN IF e = "none"
               THEN /\ Return(t, 0, Empty)
                    /\ obj' = IF op[t] = "getitem" THEN obj ELSE [obj EXCEPT ![t] = o]
               ELSE /\ Raise(t, [exc |-> e, code |-> "none"], "ok")
                    /\ UNCHANGED obj
       ELSE Raise(t, ParseError, "ok") /\ UNCHANGED obj
    /\ lst' = IF op[t] = "getitem" /\ response[proc[t]].kind = "xml"
                  /\ response[proc[t]].dos # << >>
              THEN [lst EXCEPT ![t].objects =
                       DictPut(@, arg[t].handle,
                               DigitalObject(parse_object(response[proc[t]])))]
              ELSE lst
    /\ UNCHANGED <<repo, nextId, sent, snap, written, op, arg, todo, cur, net,
                   defaults>>

\* DigitalObjectList.get_object: self.objects.get(handle, None)
get_object_kept(l, handle) == handle \in DOMAIN l.objects

\* l[index] on the list the program holds (the program looks at the result
\* and binds it to no name): get_object(object_handles[index]).
\* A DigitalObject is returned as it is; a handle is looked up in objects and
\* only when it is not there fetched with repository.get and kept
DigitalObjectList_getitem_call(t, index) ==
    /\ index \in 1..Len(lst[t].object_handles)
    /\ LET handle == lst[t].object_handles[index] IN
       IF lst[t].kind = "objects"
       THEN /\ Idle(t)
            /\ op' = [op EXCEPT ![t] = "getitem"]
            /\ arg' = [arg EXCEPT ![t] = [NoArg EXCEPT !.i = index,
                                                       !.handle = handle.handle,
                                                       !.stage = "kept"]]
            /\ sent' = [sent EXCEPT ![t] = << >>]
            /\ Return(t, 0, Empty)
       ELSE IF get_object_kept(lst[t], handle)
       THEN /\ Idle(t)
            /\ op' = [op EXCEPT ![t] = "getitem"]
            /\ arg' = [arg EXCEPT ![t] = [NoArg EXCEPT !.i = index, !.handle = handle,
                                                       !.stage = "kept"]]
            /\ sent' = [sent EXCEPT ![t] = << >>]
            /\ Return(t, 0, Empty)
       ELSE /\ Call(t, "getitem", [NoArg EXCEPT !.i = index, !.handle = handle,
                                                !.stage = "fetch"], "get_req")
    /\ UNCHANGED <<repo, nextId, response, todo, cur, obj, snap, written, active,
                   proc, flaky, defaults, lst>>

\* ------------------------------------------------------------------ BaseList
\* 'objatt_type:shape'
TypeQuery(typ) == [on |-> TRUE, typ |-> typ, name |-> Empty, id |-> Empty]

\* 'objatt_type:category AND (id:%(handle)s OR objatt_name:%(name)s)'
CategoryQuery(name) == [on |-> TRUE, typ |-> V_category, name |-> name, id |-> name]

\* BaseList.__init__: "if self.digital_object_list" asks for its length, so a
\* list without results takes handles, and handles is the one default list
\* of the process whenever the caller passes none
BaseList_object_handles(digital_object_list, handles) ==
    IF Len(digital_object_list) > 0 THEN digital_object_list ELSE handles

\* the DigitalObjects of a search
SearchObjects(data) ==
    [i \in 1..Len(parse_objects(data)) |-> DigitalObject(parse_objects(data)[i])]

Range(seq) == {seq[i] : i \in 1..Len(seq)}

\* ------------------------------------- DigitalObjectRepository.all, search
ListRequest(o, query) ==
    Request("GET", IF o = "all" THEN RepositoryUrl ELSE SearchUrl(query), Empty)

Repository_all_call(t) ==
    /\ Call(t, "all", NoArg, "list_req")
    /\ UNCHANGED <<repo, nextId, response, todo, cur, obj, snap, written, envd>>

Repository_search_call(t, query) ==
    /\ Call(t, "search", [NoArg EXCEPT !.query = query], "list_req")
    /\ UNCHANGED <<repo, nextId, response, todo, cur, obj, snap, written, envd>>

\* the list all() and search() return
ListOf(o, data) ==
    IF o = "all"
    THEN DigitalObjectList("handles",
             [i \in 1..Len(parse_objects(data)) |-> parse_objects(data)[i].handle])
    ELSE DigitalObjectList("objects", SearchObjects(data))

\* l = rep.all(): the program keeps the list
Repository_all_kept_call(t) ==
    /\ Call(t, "all", [NoArg EXCEPT !.keep = TRUE], "list_req")
    /\ UNCHANGED <<repo, nextId, response, todo, cur, obj, snap, written, envd>>

\* l = rep.search(query): the program keeps the list
Repository_search_kept_call(t, query) ==
    /\ Call(t, "search", [NoArg EXCEPT !.query = query, !.keep = TRUE], "list_req")
    /\ UNCHANGED <<repo, nextId, response, todo, cur, obj, snap, written, envd>>

Repository_list_req(t) ==
    /\ pc[t] = "list_req"
    /\ LET req == ListRequest(op[t], arg[t].query)
       IN \E out \in Outcomes(req) :
            /\ Transmit(t, req, out)
            /\ CASE MakeRequest(out) = "raise" ->
                      Raise(t, RaisedBy(out), out)
                 [] MakeRequest(out) = "retry" ->
                      UNCHANGED <<pc, ret>>
                 [] OTHER ->
                      /\ pc' = [pc EXCEPT ![t] = "list_read"]
                      /\ UNCHANGED ret
    /\ UNCHANGED <<op, arg, todo, cur, obj, written, envd>>

Repository_list_read(t) ==
    /\ pc[t] = "list_read"
    /\ Read(t)
    /\ IF response[proc[t]].kind = "xml"
       THEN IF op[t] = "shape_all"
            THEN Return(t, Len(BaseList_object_handles(
                               SearchObjects(response[proc[t]]), defaults[proc[t]])), Empty)
            ELSE Return(t, Len(parse_objects(response[proc[t]])), Empty)
       ELSE Raise(t, ParseError, "ok")
    /\ lst' = IF response[proc[t]].kind = "xml" /\ arg[t].keep
              THEN [lst EXCEPT ![t] = ListOf(op[t], response[proc[t]])]
              ELSE lst
    /\ UNCHANGED <<repo, nextId, sent, snap, written, op, arg, todo, cur, obj, net,
                   defaults>>

\* ----------------------------------------------------------- CategoryList
\* CategoryRepository.get on the objects of its search: the exception it
\* raises, or "none" and the handles of the exact matches
ExactMatches(objects, name) ==
    IF \E i \in 1..Len(objects) : K_name \notin DOMAIN objects[i].attributes
    THEN [exc |-> "AttributeError", handles |-> << >>]
    ELSE LET hit == SelectSeq(objects,
                       LAMBDA o : o.attributes[K_name] = name \/ o.handle = name)
         IN [exc   |-> IF hit = << >> THEN "CategoryNotFound"
                       ELSE IF Len(hit) > 1 THEN "MultipleCategoriesFound"
                       ELSE "none",
             handles |-> [i \in 1..Len(hit) |-> hit[i].handle]]

\* ",".join(handles)
RECURSIVE Join(_)
Join(handles) ==
    IF handles = << >> THEN Empty
    ELSE IF Len(handles) = 1 THEN handles[1]
    ELSE handles[1] \o <<",">> \o Join(Tail(handles))

\* CategoryList.add leaves out what is in object_handles already
RECURSIVE SkipKnown(_, _)
SkipKnown(handles, names) ==
    IF names = << >> THEN << >>
    ELSE IF Head(names) \in Range(handles) THEN SkipKnown(handles, Tail(names))
    ELSE names

\* ShapeRepository.create: the data of the record
ShapeData(name, categories, handles) ==
    (K_name :> name) @@ (K_type :> V_shape) @@
    (IF categories # << >> THEN (K_category :> Join(handles)) ELSE << >>)

\* ShapeRepository.create: CategoryList(names=...) adds the next name, and
\* after the last the record is created; handles is the list of the
\* CategoryList, a is what the call knows
AddNext(t, a, handles, names) ==
    LET rest == SkipKnown(handles, names) IN
    IF rest # << >>
    THEN /\ pc' = [pc EXCEPT ![t] = "category_search_req"]
         /\ arg' = [arg EXCEPT ![t] = [a EXCEPT !.cat = Head(rest), !.cats = Tail(rest),
                                                !.found = << >>, !.i = 0]]
         /\ UNCHANGED todo
    ELSE LET data == ShapeData(a.sname, a.categories, handles) IN
         /\ pc' = [pc EXCEPT ![t] = "create_post"]
         /\ arg' = [arg EXCEPT ![t] = [a EXCEPT !.data = data, !.stage = "shape",
                                                !.cat = Empty, !.cats = << >>]]
         /\ todo' = [todo EXCEPT ![t] = [files |-> {}, data |-> DOMAIN data]]

\* ------------------------------------------------------- CategoryRepository
CategorySearchRequest(name) == Request("GET", SearchUrl(CategoryQuery(name)), Empty)

\* get_or_create has its category (there is exactly one): create returns it,
\* CategoryList.add appends its handle to object_handles
CategoryFound(t, handle) ==
    IF op[t] = "category_create"
    THEN /\ Return(t, 0, handle)
         /\ UNCHANGED <<arg, todo, defaults>>
    ELSE /\ defaults' = [defaults EXCEPT ![proc[t]] = Append(@, handle)]
         /\ AddNext(t, arg[t], Append(defaults[proc[t]], handle), arg[t].cats)
         /\ UNCHANGED ret

\* get_or_create catches CategoryNotFound: repository.create(data={'name':
\* category, 'type': 'category'})
CategoryMissing(t) ==
    LET data == (K_name :> arg[t].cat) @@ (K_type :> V_category) IN
    /\ pc' = [pc EXCEPT ![t] = "create_post"]
    /\ arg' = [arg EXCEPT ![t].data = data, ![t].stage = "category"]
    /\ todo' = [todo EXCEPT ![t] = [files |-> {}, data |-> DOMAIN data]]
    /\ UNCHANGED <<ret, defaults>>

\* how CategoryRepository.get ends on its exact matches
CategoryGetEnds(t, m) ==
    CASE m.exc = "none" -> CategoryFound(t, m.handles[1])
      [] m.exc = "CategoryNotFound" -> CategoryMissing(t)
      [] OTHER -> /\ Raise(t, [exc |-> m.exc, code |-> "none"], "ok")
                  /\ UNCHANGED <<arg, todo, defaults>>

CategoryRepository_create_call(t, name) ==
    /\ nextId + PendingPosts <= MaxObjects
    /\ Call(t, "category_create", [NoArg EXCEPT !.cat = name], "category_search_req")
    /\ UNCHANGED <<repo, nextId, response, todo, cur, obj, snap, written, envd>>

\* CategoryRepository.get: self.search(...)
CategoryRepository_search_req(t) ==
    /\ pc[t] = "category_search_req"
    /\ LET req == CategorySearchRequest(arg[t].cat)
       IN \E out \in Outcomes(req) :
            /\ Transmit(t, req, out)
            /\ CASE MakeRequest(out) = "raise" ->
                      Raise(t, RaisedBy(out), out)
                 [] MakeRequest(out) = "retry" ->
                      UNCHANGED <<pc, ret>>
                 [] OTHER ->
                      /\ pc' = [pc EXCEPT ![t] = "category_search_read"]
                      /\ UNCHANGED ret
    /\ UNCHANGED <<op, arg, todo, cur, obj, written, envd>>

\* CategoryRepository.get: the loop over the CategoryList of the search. A
\* search with results yields its objects; one without yields the handles of
\* the default list, each of them looked up with another get
CategoryRepository_search_read(t) ==
    /\ pc[t] = "category_search_read"
    /\ Read(t)
    /\ IF response[proc[t]].kind # "xml"
       THEN Raise(t, ParseError, "ok") /\ UNCHANGED <<arg, todo, defaults>>
       ELSE LET objects == SearchObjects(response[proc[t]])
                handles == BaseList_object_handles(objects, defaults[proc[t]])
            IN IF Len(objects) > 0
               THEN CategoryGetEnds(t, ExactMatches(objects, arg[t].cat))
               ELSE IF handles = << >>
               THEN CategoryMissing(t)
               ELSE /\ pc' = [pc EXCEPT ![t] = "category_nested_req"]
                    /\ arg' = [arg EXCEPT ![t].i = 1, ![t].found = << >>]
                    /\ UNCHANGED <<ret, todo, defaults>>
    /\ UNCHANGED <<repo, nextId, sent, snap, written, op, cur, obj, env>>

\* BaseList.get_object(handle) for a handle of the default list:
\* self.repository.get(handle), which is CategoryRepository.get again
CategoryRepository_nested_req(t) ==
    /\ pc[t] = "category_nested_req"
    /\ LET req == CategorySearchRequest(defaults[proc[t]][arg[t].i])
       IN \E out \in Outcomes(req) :
            /\ Transmit(t, req, out)
            /\ CASE MakeRequest(out) = "raise" ->
                      Raise(t, RaisedBy(out), out)
                 [] MakeRequest(out) = "retry" ->
                      UNCHANGED <<pc, ret>>
                 [] OTHER ->
                      /\ pc' = [pc EXCEPT ![t] = "category_nested_read"]
                      /\ UNCHANGED ret
    /\ UNCHANGED <<op, arg, todo, cur, obj, written, envd>>

\* the nested get ends: without results its own list is the default list
\* again and the lookups never end (RuntimeError, the recursion limit); its
\* CategoryNotFound ends the loop of the outer get, which get_or_create
\* catches; its category is compared with the name the outer get looks for
CategoryRepository_nested_read(t) ==
    /\ pc[t] = "category_nested_read"
    /\ Read(t)
    /\ IF response[proc[t]].kind # "xml"
       THEN Raise(t, ParseError, "ok") /\ UNCHANGED <<arg, todo, defaults>>
       ELSE LET objects == SearchObjects(response[proc[t]])
                handle == defaults[proc[t]][arg[t].i]
                m == ExactMatches(objects, handle)
                result == CHOOSE o \in Range(objects) : o.handle = m.handles[1]
                found == IF result.attributes[K_name] = arg[t].cat
                            \/ result.handle = arg[t].cat
                         THEN Append(arg[t].found, result.handle)
                         ELSE arg[t].found
            IN IF Len(objects) = 0
               THEN /\ Raise(t, [exc |-> "RuntimeError", code |-> "none"], "ok")
                    /\ UNCHANGED <<arg, todo, defaults>>
               ELSE IF m.exc = "CategoryNotFound"
               THEN CategoryMissing(t)
               ELSE IF m.exc # "none"
               THEN /\ Raise(t, [exc |-> m.exc, code |-> "none"], "ok")
                    /\ UNCHANGED <<arg, todo, defaults>>
               ELSE IF arg[t].i < Len(defaults[proc[t]])
               THEN /\ pc' = [pc EXCEPT ![t] = "category_nested_req"]
                    /\ arg' = [arg EXCEPT ![t].i = @ + 1, ![t].found = found]
                    /\ UNCHANGED <<ret, todo, defaults>>
               ELSE CategoryGetEnds(t,
                        [exc |-> IF found = << >> THEN "CategoryNotFound"
                                 ELSE IF Len(found) > 1 THEN "MultipleCategoriesFound"
                                 ELSE "none",
                         handles |-> found])
    /\ UNCHANGED <<repo, nextId, sent, snap, written, op, cur, obj, env>>

\* ---------------------------------------------------------- ShapeRepository
ShapeRepository_create_call(t, name, categories) ==
    /\ nextId + PendingPosts <= MaxObjects
    /\ Idle(t)
    /\ op' = [op EXCEPT ![t] = "shape_create"]
    /\ ret' = [ret EXCEPT ![t] = NoRet]
    /\ sent' = [sent EXCEPT ![t] = << >>]
    /\ AddNext(t, [NoArg EXCEPT !.sname = name, !.categories = categories],
               defaults[proc[t]], categories)
    /\ UNCHANGED <<repo, nextId, response, cur, obj, snap, written, envd>>

ShapeRepository_all_call(t) ==
    /\ Call(t, "shape_all", [NoArg EXCEPT !.query = TypeQuery(V_shape)], "list_req")
    /\ UNCHANGED <<repo, nextId, response, todo, cur, obj, snap, written, envd>>

\* ------------------------------------------------------------------ inputs
V_test   == <<"Test Object">>
V_python == <<"Python">>

AttrNames == {K_name, K_type, K_subinternal}

ValuesOf(name) ==
    CASE name = K_name -> {V_test}
      [] name = K_type -> {V_shape, V_category}
      [] OTHER         -> {V_python}

\* the data dicts create is called with
DataChoices ==
    {<< >>, (K_name :> V_test), (K_name :> V_test) @@ (K_subinternal :> V_python)}

QueryChoices == {NameQuery(v) : v \in ValuesOf(K_name)}

K_example == <<"example">>

ElementNames == {K_example, K_subinternal}

F_txt == [kind |-> "path", name |-> <<"/", "tmp", "/", "samplefile", ".", "txt">>,
          ctype |-> Empty, body |-> <<"Sample content.">>]

F_svg == [kind |-> "path", name |-> <<"/", "tmp", "/", "samplefile", ".", "svg">>,
          ctype |-> Empty, body |-> <<"<svg/>">>]

\* an upload as tornado hands it over
F_upload == [kind |-> "upload", name |-> <<"mask", ".", "svg">>,
             ctype |-> <<"image/png">>, body |-> <<"<svg/>">>]

FileChoices == {F_txt, F_upload}

\* the files and data create is called with where files are stored
FileCreateChoices ==
    {[files |-> << >>, data |-> << >>],
     [files |-> (K_example :> F_svg), data |-> (K_name :> V_test)]}

\* ----------------------------------------------------------- specification
InitCommon ==
    /\ repo = << >>
    /\ nextId = 1
    /\ response = [p \in Procs |-> NoResponse]
    /\ defaults = [p \in Procs |-> << >>]
    /\ proc = [t \in Threads |-> IF t = "t1" THEN "p1" ELSE "p2"]
    /\ pc = [t \in Threads |-> "idle"]
    /\ op = [t \in Threads |-> "none"]
    /\ arg = [t \in Threads |-> NoArg]
    /\ todo = [t \in Threads |-> [files |-> {}, data |-> {}]]
    /\ cur = [t \in Threads |-> NoObject]
    /\ obj = [t \in Threads |-> NoObject]
    /\ ret = [t \in Threads |-> NoRet]
    /\ sent = [t \in Threads |-> << >>]
    /\ snap = [t \in Threads |-> NoSnap]
    /\ written = << >>
    /\ lst = [t \in Threads |-> NoList]

\* one client program on a network that may fail
Init ==
    /\ InitCommon
    /\ active = {"t1"}
    /\ flaky = TRUE

Next ==
    \E t \in Threads :
        \/ \E data \in DataChoices : Repository_create_call(t, << >>, data)
        \/ Repository_create_post(t)
        \/ Repository_create_read(t)
        \/ \E name \in AttrNames : \E value \in ValuesOf(name) :
              DigitalObject_set_call(t, name, value)
        \/ DigitalObject_set(t)
        \/ DigitalObject_delete_call(t)
        \/ DigitalObject_delete(t)
        \/ \E handle \in Issued : Repository_get_call(t, handle)
        \/ \E handle \in Issued : ShapeRepository_get_call(t, handle)
        \/ Repository_get_req(t)
        \/ Repository_get_read(t)
        \/ Repository_all_call(t)
        \/ \E query \in QueryChoices : Repository_search_call(t, query)
        \/ Repository_list_req(t)
        \/ Repository_list_read(t)

Spec == Init /\ [][Next]_vars

\* one client program that stores and reads files
NextFiles ==
    \E t \in Threads :
        \/ \E c \in FileCreateChoices : Repository_create_call(t, c.files, c.data)
        \/ Repository_create_post(t)
        \/ Repository_create_read(t)
        \/ DigitalObject_set(t)
        \/ \E name \in ElementNames : \E file \in FileChoices :
              DigitalObject_put_file_call(t, name, file)
        \/ DigitalObject_put_file_body(t)
        \/ DigitalObject_put_file_mimetype(t)
        \/ DigitalObject_put_file_filename(t)
        \/ \E name \in ElementNames : File_body_call(t, name)
        \/ File_body_req(t)
        \/ File_body_read(t)
        \/ DigitalObject_delete_call(t)
        \/ DigitalObject_delete(t)
        \/ \E handle \in Issued : Repository_get_call(t, handle)
        \/ Repository_get_req(t)
        \/ Repository_get_read(t)

\* one client program on a network that does not fail
InitReliable ==
    /\ InitCommon
    /\ active = {"t1"}
    /\ flaky = FALSE

SpecFiles == InitReliable /\ [][NextFiles]_vars

\* one client program that uses every operation, on a network that may fail
NextRequests ==
    \E t \in Threads :
        \/ Repository_create_call(t, (K_example :> F_txt), (K_name :> V_test))
        \/ Repository_create_post(t)
        \/ Repository_create_read(t)
        \/ DigitalObject_set_call(t, K_name, V_test)
        \/ DigitalObject_set(t)
        \/ DigitalObject_put_file_call(t, K_example, F_txt)
        \/ DigitalObject_put_file_body(t)
        \/ DigitalObject_put_file_mimetype(t)
        \/ DigitalObject_put_file_filename(t)
        \/ DigitalObject_delete_call(t)
        \/ DigitalObject_delete(t)
        \/ \E handle \in Issued : Repository_get_call(t, handle)
        \/ Repository_get_req(t)
        \/ Repository_get_read(t)
        \/ Repository_all_call(t)
        \/ Repository_search_call(t, NameQuery(V_test))
        \/ Repository_list_req(t)
        \/ Repository_list_read(t)

SpecRequests == Init /\ [][NextRequests]_vars

\* one client program that reads what it has read before
NextReads ==
    \E t \in Threads :
        \/ Repository_create_call(t, (K_example :> F_txt), (K_name :> V_test))
        \/ Repository_create_post(t)
        \/ Repository_create_read(t)
        \/ DigitalObject_set(t)
        \/ DigitalObject_put_file_body(t)
        \/ DigitalObject_put_file_mimetype(t)
        \/ DigitalObject_put_file_filename(t)
        \/ File_body_call(t, K_example)
        \/ File_body_req(t)
        \/ File_body_read(t)
        \/ Repository_all_kept_call(t)
        \/ Repository_search_kept_call(t, NameQuery(V_test))
        \/ Repository_list_req(t)
        \/ Repository_list_read(t)
        \/ \E index \in 1..MaxObjects : DigitalObjectList_getitem_call(t, index)
        \/ \E handle \in Issued : Repository_get_call(t, handle)
        \/ Repository_get_req(t)
        \/ Repository_get_read(t)
        \/ DigitalObject_delete_call(t)
        \/ DigitalObject_delete(t)

SpecReads == InitReliable /\ [][NextReads]_vars

\* two threads of one process: they share the module's one opener
InitThreads ==
    /\ repo = << >>
    /\ nextId = 1
    /\ response = [p \in Procs |-> NoResponse]
    /\ defaults = [p \in Procs |-> << >>]
    /\ proc = [t \in Threads |-> "p1"]
    /\ pc = [t \in Threads |-> "idle"]
    /\ op = [t \in Threads |-> "none"]
    /\ arg = [t \in Threads |-> NoArg]
    /\ todo = [t \in Threads |-> [files |-> {}, data |-> {}]]
    /\ cur = [t \in Threads |-> NoObject]
    /\ obj = [t \in Threads |-> NoObject]
    /\ ret = [t \in Threads |-> NoRet]
    /\ sent = [t \in Threads |-> << >>]
    /\ snap = [t \in Threads |-> NoSnap]
    /\ written = << >>
    /\ lst = [t \in Threads |-> NoList]
    /\ active = Threads
    /\ flaky = FALSE

NextThreads ==
    \E t \in Threads :
        \/ Repository_create_call(t, << >>, (K_name :> V_test))
        \/ Repository_create_post(t)
        \/ Repository_create_read(t)
        \/ DigitalObject_set(t)
        \/ \E handle \in Issued : Repository_get_call(t, handle)
        \/ Repository_get_req(t)
        \/ Repository_get_read(t)

SpecThreads == InitThreads /\ [][NextThreads]_vars

V_catA == <<"gears">>
V_catB == <<"wheels">>

CategoryNames == {V_catA, V_catB}

CategoryLists == {<< >>, <<V_catA>>, <<V_catA, V_catB>>}

\* one client program that works with shapes and categories
NextShapes ==
    \E t \in Threads :
        \/ \E categories \in CategoryLists :
              ShapeRepository_create_call(t, V_test, categories)
        \/ \E name \in CategoryNames : CategoryRepository_create_call(t, name)
        \/ CategoryRepository_search_req(t)
        \/ CategoryRepository_search_read(t)
        \/ CategoryRepository_nested_req(t)
        \/ CategoryRepository_nested_read(t)
        \/ Repository_create_post(t)
        \/ Repository_create_read(t)
        \/ DigitalObject_set(t)
        \/ ShapeRepository_all_call(t)
        \/ Repository_list_req(t)
        \/ Repository_list_read(t)
        \/ \E handle \in Issued : ShapeRepository_get_call(t, handle)
        \/ Repository_get_req(t)
        \/ Repository_get_read(t)
        \/ DigitalObject_delete_call(t)
        \/ DigitalObject_delete(t)

SpecShapes == InitReliable /\ [][NextShapes]_vars

\* two clients, each a process of its own, that create categories
InitClients ==
    /\ InitCommon
    /\ active = Threads
    /\ flaky = FALSE

NextClients ==
    \E t \in Threads :
        \/ \E name \in CategoryNames : CategoryRepository_create_call(t, name)
        \/ CategoryRepository_search_req(t)
        \/ CategoryRepository_search_read(t)
        \/ Repository_create_post(t)
        \/ Repository_create_read(t)
        \/ DigitalObject_set(t)

SpecClients == InitClients /\ [][NextClients]_vars

\* ------------------------------------------------------------------ claims
\* the object rep.get(handle) returns from the repository as it is now
RepositoryGet(handle) ==
    DigitalObject(parse_object(ServerReply(repo, nextId, GetRequest(handle))))

Got(name, value) == [exc |-> "none", val |-> value]

Finished(t, o) == pc[t] = "idle" /\ op[t] = o /\ ret[t].status = "ok"

\* C1: a successful create, with no other writer meanwhile, makes rep.all()
\* exactly one longer than it was before the call, and makes a search for
\* the new object's name return exactly one more result than before.
C1_CreateAddsOneRecord ==
    \A t \in Threads :
        (Finished(t, "create") /\ snap[t].clean) =>
            /\ AllLen(repo, nextId) = snap[t].all + 1
            /\ K_name \in DOMAIN arg[t].data =>
                  SearchLen(repo, nextId, NameQuery(arg[t].data[K_name]))
                      = snap[t].match + 1

C1_Witness ==
    \E t \in Threads :
        /\ Finished(t, "create") /\ snap[t].clean
        /\ K_name \in DOMAIN arg[t].data
        /\ snap[t].all = 1 /\ snap[t].match = 1

\* C2: after a create and the delete of the object it created, with no other
\* writer meanwhile, rep.all() and a search for the object's name are as long
\* as they were before the create.
C2_DeleteRemovesTheRecord ==
    \A t \in Threads :
        (Finished(t, "delete") /\ obj[t].handle = snap[t].handle /\ snap[t].clean) =>
            /\ AllLen(repo, nextId) = snap[t].all
            /\ snap[t].name # Empty =>
                  SearchLen(repo, nextId, NameQuery(snap[t].name)) = snap[t].match

C2_Witness ==
    \E t \in Threads :
        /\ Finished(t, "delete") /\ obj[t].handle = snap[t].handle /\ snap[t].clean
        /\ snap[t].name # Empty
        /\ snap[t].all = 1 /\ snap[t].match = 1

\* C3 as claimed: after a successful do.set(name, value), do.get(name) returns
\* value, and rep.get(do.handle).get(name) returns value for as long as the
\* attribute is not set again and the object is not deleted.
C3_SetGetRoundTrip ==
    /\ \A t \in Threads :
          Finished(t, "set") =>
              DigitalObject_get(obj[t], arg[t].name) = Got(arg[t].name, arg[t].value)
    /\ \A h \in DOMAIN written : \A name \in DOMAIN written[h] :
          DigitalObject_get(RepositoryGet(h), name) = Got(name, written[h][name])

\* C3 as amended: the same, the second half for the names that do not
\* contain 'internal.' (parse_object leaves the others out of the object).
C3_SetGetRoundTripAmended ==
    /\ \A t \in Threads :
          Finished(t, "set") =>
              DigitalObject_get(obj[t], arg[t].name) = Got(arg[t].name, arg[t].value)
    /\ \A h \in DOMAIN written : \A name \in DOMAIN written[h] :
          ~Contains(INTERNAL, name) =>
              DigitalObject_get(RepositoryGet(h), name) = Got(name, written[h][name])

C3_Witness ==
    \E t \in Threads :
        /\ Finished(t, "get")
        /\ obj[t].handle \in DOMAIN written
        /\ K_type \in DOMAIN written[obj[t].handle]
        /\ K_subinternal \in DOMAIN written[obj[t].handle]
        /\ DigitalObject_get(obj[t], K_type).val = written[obj[t].handle][K_type]

\* C4 as claimed: the object do that rep.create(data=D) returns has
\* do.get(k) = D[k] for every key k of D, and rep.get(do.handle) returns an
\* object with the same handle and get(k) = D[k] for every key k of D.
C4_CreateGetRoundTrip ==
    \A t \in Threads :
        Finished(t, "create") =>
            /\ \A k \in DOMAIN arg[t].data :
                  DigitalObject_get(obj[t], k) = Got(k, arg[t].data[k])
            /\ RepositoryGet(obj[t].handle).handle = obj[t].handle
            /\ \A k \in DOMAIN arg[t].data :
                  DigitalObject_get(RepositoryGet(obj[t].handle), k) = Got(k, arg[t].data[k])

\* C4 as amended: the same, where the object rep.get returns is asked only
\* for the keys of D that do not contain 'internal.'.
C4_CreateGetRoundTripAmended ==
    \A t \in Threads :
        Finished(t, "create") =>
            /\ \A k \in DOMAIN arg[t].data :
                  DigitalObject_get(obj[t], k) = Got(k, arg[t].data[k])
            /\ RepositoryGet(obj[t].handle).handle = obj[t].handle
            /\ \A k \in DOMAIN arg[t].data :
                  ~Contains(INTERNAL, k) =>
                      DigitalObject_get(RepositoryGet(obj[t].handle), k)
                          = Got(k, arg[t].data[k])

C4_Witness ==
    \E t \in Threads :
        /\ Finished(t, "create")
        /\ DOMAIN arg[t].data = {K_name, K_subinternal}
        /\ obj[t].handle = Handle(2)
        /\ DigitalObject_get(RepositoryGet(obj[t].handle), K_name).val = V_test

\* what file.body returns from the repository as it is now
FetchBody(file) ==
    IF file.hasbody THEN file.body
    ELSE ServerReply(repo, nextId, BodyRequest(file)).raw

C7_ShapeGetChecksType ==
    \A t \in Threads :
        (pc[t] = "idle" /\ op[t] = "shape_get" /\ ret[t].out = "ok") =>
            IF DictGet(repo[arg[t].handle].atts, K_type, Empty) = V_shape
            THEN ret[t].status = "ok"
            ELSE ret[t].status = "raised" /\ ret[t].exc = "ShapeInvalidRecord"

\* the records of type typ in the repository
RecordsOfType(typ) ==
    {h \in DOMAIN repo : DictGet(repo[h].atts, K_type, Empty) = typ}

\* C6: in one process, after any shape and category operations, the length
\* of ShapeRepository.all() is the number of records of type 'shape' that
\* are in the repository.
C6_ShapeAllListsShapes ==
    \A t \in Threads :
        Finished(t, "shape_all") => ret[t].len = Cardinality(RecordsOfType(V_shape))

\* C8: with two clients running create for the same name, their requests
\* interleaved in any order, the repository never holds two records of type
\* 'category' with that name.
C8_CategoriesUnique ==
    \A name \in CategoryNames :
        Cardinality({h \in RecordsOfType(V_category) :
                        DictGet(repo[h].atts, K_name, Empty) = name}) <= 1

\* C9: a failed request of DigitalObjectRepository.get raises
\* DigitalObjectNotFound for 404, DORepositoryServerError for 400 and for a
\* failure without a status, the HTTP error itself for any other status, and
\* the caller gets no object.
C9_GetTranslatesErrors ==
    [][\A t \in Threads :
          (pc[t] = "get_req" /\ pc'[t] = "idle") =>
              LET out == sent'[t][Len(sent'[t])].out IN
              /\ ret'[t].status = "raised"
              /\ obj'[t] = obj[t]
              /\ out = "404" => ret'[t].exc = "DigitalObjectNotFound"
              /\ out = "400" => ret'[t].exc = "DORepositoryServerError"
              /\ out = "conn" => ret'[t].exc = "DORepositoryServerError"
              /\ out \notin {"404", "400", "conn"} =>
                    ret'[t].exc = "HTTPError" /\ ret'[t].code = out]_vars

C9_Witness ==
    \E t \in Threads :
        /\ pc[t] = "idle" /\ op[t] = "get" /\ ret[t].status = "raised"
        /\ ret[t].out = "500" /\ ret[t].exc = "HTTPError" /\ ret[t].code = "500"
        /\ obj[t].handle # Empty

\* C10: an operation sends each of its requests at most once, and a request
\* that fails is the last one it sends: the operation has raised.
C10_NoRetry ==
    \A t \in Threads :
        /\ \A i, j \in 1..Len(sent[t]) : i < j => sent[t][i].req # sent[t][j].req
        /\ \A i \in 1..Len(sent[t]) :
              sent[t][i].out # "ok" =>
                  i = Len(sent[t]) /\ pc[t] = "idle" /\ ret[t].status = "raised"

C10_Witness ==
    \E t \in Threads :
        /\ op[t] = "create" /\ Len(sent[t]) = 3
        /\ sent[t][3].req.url.att = K_mimetype
        /\ sent[t][3].out = "conn"
        /\ pc[t] = "idle" /\ todo[t].data = {}

\* the object l[index] returned to thread t
GotItem(t) ==
    IF lst[t].kind = "objects" THEN lst[t].object_handles[arg[t].i]
    ELSE lst[t].objects[arg[t].handle]

\* the body the repository has now for file name of thread t's object
BodyNow(t, name) == repo[obj[t].handle].els[name].body

Ended(t, o) == pc[t] = "idle" /\ op[t] = o /\ ret[t].status # "none"

\* the requests a create with these files and data sends when none fails
CreateRequests(files, data) ==
    1 + 3 * Cardinality(DOMAIN files) + Cardinality(DOMAIN data)

C13_OwnResponse ==
    \A t \in Threads :
        /\ (Ended(t, "get") /\ sent[t][1].out = "ok") =>
              /\ ret[t].status = "ok"
              /\ obj[t].handle = arg[t].handle
        /\ (Ended(t, "create") /\ \A i \in 1..Len(sent[t]) : sent[t][i].out = "ok") =>
              /\ ret[t].status = "ok"
              /\ obj[t].handle = snap[t].handle

====
